---- MODULE Spec2Model ----
(***************************************************************************)
(* Othello on an 8x8 board (src/src/main.rs).  The GameState resource is   *)
(* mutated by the systems of three chains of the Update schedule: the      *)
(* click chain (handle_click, calculate_score, check_game_over), the reset *)
(* chain (handle_press_space, calculate_score) and the pass chain          *)
(* (handle_press_key_s).  Every system is one action.  The render system   *)
(* ending each chain only writes the materials of the cell entities, which *)
(* no system reads back, and is not modelled.                              *)
(***************************************************************************)
EXTENDS Integers, Sequences, FiniteSets, TLC

\* The mouse button is pressed on every board with fewer than MaxPieces
\* occupied cells and on every board of the two recorded games below.
MaxPieces == 8

\* board: [[CellState; 8]; 8]
BoardSize == 8
Index == 0 .. (BoardSize - 1)

\* Size of the primary window (bevy's default resolution).
WindowWidth == 1280
WindowHeight == 720

CellState == {"Empty", "White", "Black"}
WhiteOrBlack == {"White", "Black"}

\* Cursor positions offered to handle_click: None (cursor outside the
\* window) or a pixel; the pixels hit every cell and both sides of each
\* edge of the click filter.
None == [x |-> -1, y |-> -1]
CursorXs == {459, 460, 500, 540, 580, 620, 660, 700, 740, 779, 780}
CursorYs == {219, 220, 260, 300, 340, 380, 420, 460, 500, 539, 540}
Cursors == {None} \cup [x : CursorXs, y : CursorYs]

VARIABLES
    board,          \* GameState.board
    current_turn,   \* GameState.current_turn
    white_score,    \* GameState.white_score
    black_score,    \* GameState.black_score
    pc,             \* per chain, the system that runs next ("idle": none)
    last_click,     \* what the handle_click of the running click chain did
    game_over,      \* whether the last check_game_over printed "Game Over"
    panicked,       \* a system panicked: the application is gone
    accepted_clicks \* history: clicks that placed a piece since the last
                    \* reset_game_state

vars == <<board, current_turn, white_score, black_score,
          pc, last_click, game_over, panicked, accepted_clicks>>

game_state == <<board, current_turn, white_score, black_score>>

----------------------------------------------------------------------------
(* GameState *)

\* #[derive(Default)]: every cell Empty.
DefaultBoard == [r \in Index |-> [c \in Index |-> "Empty"]]

\* Mutant of reset_game_state: the four pieces are placed on a board that
\* was not cleared.
reset_game_state_uncleared(b) ==
    [b EXCEPT ![3][3] = "White", ![4][4] = "White",
              ![3][4] = "Black", ![4][3] = "Black"]

\* The board written by reset_game_state: every cell Empty, then the four
\* centre pieces.
reset_game_state(b) ==
    LET cleared == [r \in DOMAIN b |-> [c \in DOMAIN b[r] |-> "Empty"]]
    IN  [cleared EXCEPT ![3][3] = "White", ![4][4] = "White",
                        ![3][4] = "Black", ![4][3] = "Black"]

\* The cell state of a player (current) and of the other player (target).
Current(turn) == IF turn = "White" THEN "White" ELSE "Black"
Target(turn) == IF turn = "White" THEN "Black" ELSE "White"

\* Mutant of Toggle: both arms of the match give Black.
ToggleToBlack(turn) == IF turn = "White" THEN "Black" ELSE "Black"

\* The turn after a toggle.
Toggle(turn) == IF turn = "White" THEN "Black" ELSE "White"

\* Number of cells of a row holding state s, from column c on.
RECURSIVE CountRow(_, _, _)
CountRow(cells, s, c) ==
    IF c = BoardSize THEN 0
    ELSE (IF cells[c] = s THEN 1 ELSE 0) + CountRow(cells, s, c + 1)

\* Number of cells of board b holding state s, rows r.. on: the nested
\* loops over the rows and over the cells of each row.
RECURSIVE CountFrom(_, _, _)
CountFrom(b, s, r) ==
    IF r = BoardSize THEN 0
    ELSE CountRow(b[r], s, 0) + CountFrom(b, s, r + 1)

Count(b, s) == CountFrom(b, s, 0)

\* Occupied cells, for the bound MaxPieces.
Pieces(b) == Count(b, "White") + Count(b, "Black")

----------------------------------------------------------------------------
(* handle_click *)

\* The click filter: positions outside the board's 320x320 square return.
OutsideBoard(position) ==
    \/ position.x < 460
    \/ position.x >= 780
    \/ position.y < 220
    \/ position.y >= 540

\* f32 -> usize cast of n/40 for integers n: truncation, negatives give 0.
AsUsize40(n) == IF n < 0 THEN 0 ELSE n \div 40

\* row = ((x - size.x/2 + 20) / 40 + 4) as usize
RowOf(position) ==
    AsUsize40((position.x - (WindowWidth \div 2) + 20) + 4 * 40)

\* column = (8 - ((y - size.y/2 - 20) / 40 + 4)) as usize
ColumnOf(position) ==
    AsUsize40(8 * 40 - ((position.y - (WindowHeight \div 2) - 20) + 4 * 40))

InBoard(r, c) == r >= 0 /\ r < 8 /\ c >= 0 /\ c < 8

\* Mutant of Directions: the ranges -1..1 taken without their upper end.
DirectionsExclusive == << <<-1, -1>>, <<-1, 0>>, << 0, -1>> >>

\* The eight directions in the order of the two nested loops.
Directions ==
    << <<-1, -1>>, <<-1, 0>>, <<-1, 1>>,
       << 0, -1>>,            << 0, 1>>,
       << 1, -1>>, << 1, 0>>, << 1, 1>> >>

\* Mutant of Seek: the test of the first cell is missing, so that a ray
\* whose first cell is the player's own ignites.
RECURSIVE SeekNoLock(_, _, _, _, _, _, _, _)
SeekNoLock(b, current, target, seek_row, seek_column, row_dir, column_dir, lock_on) ==
    LET r == seek_row + row_dir
        c == seek_column + column_dir
    IN  IF ~InBoard(r, c)
        THEN [ignite |-> FALSE, seek_row |-> r, seek_column |-> c]
        ELSE IF b[r][c] = current
        THEN [ignite |-> TRUE, seek_row |-> r, seek_column |-> c]
        ELSE IF b[r][c] # target
        THEN [ignite |-> FALSE, seek_row |-> r, seek_column |-> c]
        ELSE SeekNoLock(b, current, target, r, c, row_dir, column_dir, TRUE)

\* The seek loop of one direction, entered at (seek_row, seek_column) with
\* the given lock_on: the position it stops at and whether it ignited.
RECURSIVE Seek(_, _, _, _, _, _, _, _)
Seek(b, current, target, seek_row, seek_column, row_dir, column_dir, lock_on) ==
    LET r == seek_row + row_dir
        c == seek_column + column_dir
    IN  IF ~InBoard(r, c)
        THEN [ignite |-> FALSE, seek_row |-> r, seek_column |-> c]
        ELSE IF ~lock_on /\ b[r][c] # target
        THEN [ignite |-> FALSE, seek_row |-> r, seek_column |-> c]
        ELSE IF b[r][c] = current
        THEN [ignite |-> TRUE, seek_row |-> r, seek_column |-> c]
        ELSE Seek(b, current, target, r, c, row_dir, column_dir, TRUE)

\* Mutant of Flip: an if in place of the while, so that only the ignition
\* cell is written.
FlipOnce(b, current, seek_row, seek_column, row_dir, column_dir, row, column) ==
    IF seek_row # row \/ seek_column # column
    THEN [b EXCEPT ![seek_row][seek_column] = current]
    ELSE b

\* The loop run when a direction ignited: from the ignition cell back to,
\* and excluding, the clicked cell every cell is set to current.
RECURSIVE Flip(_, _, _, _, _, _, _, _)
Flip(b, current, seek_row, seek_column, row_dir, column_dir, row, column) ==
    IF seek_row # row \/ seek_column # column
    THEN Flip([b EXCEPT ![seek_row][seek_column] = current], current,
              seek_row - row_dir, seek_column - column_dir,
              row_dir, column_dir, row, column)
    ELSE b

\* Mutant of SeekDirections: found is assigned from ignite in every
\* direction, so that it tells of the last direction only.
RECURSIVE SeekDirectionsLast(_, _, _, _, _, _, _)
SeekDirectionsLast(b, current, target, row, column, i, found) ==
    IF i > Len(Directions) THEN [board |-> b, found |-> found]
    ELSE LET d == Directions[i]
             s == Seek(b, current, target, row, column, d[1], d[2], FALSE)
         IN  IF s.ignite
             THEN SeekDirectionsLast(
                      Flip(b, current, s.seek_row, s.seek_column,
                           d[1], d[2], row, column),
                      current, target, row, column, i + 1, TRUE)
             ELSE SeekDirectionsLast(b, current, target, row, column, i + 1,
                                     FALSE)

\* The loops over the directions from the i-th on: each direction is sought
\* on the board as the directions before it left it.
RECURSIVE SeekDirections(_, _, _, _, _, _, _)
SeekDirections(b, current, target, row, column, i, found) ==
    IF i > Len(Directions) THEN [board |-> b, found |-> found]
    ELSE LET d == Directions[i]
             s == Seek(b, current, target, row, column, d[1], d[2], FALSE)
         IN  IF s.ignite
             THEN SeekDirections(
                      Flip(b, current, s.seek_row, s.seek_column,
                           d[1], d[2], row, column),
                      current, target, row, column, i + 1, TRUE)
             ELSE SeekDirections(b, current, target, row, column, i + 1, found)

\* Mutant of ClickResult: the assignment of the clicked cell is missing.
ClickResultNoPlacement(b, turn, position) ==
    IF position = None
    THEN [outcome |-> "no_cursor", row |-> 0, column |-> 0,
          board |-> b, turn |-> turn]
    ELSE IF OutsideBoard(position)
    THEN [outcome |-> "outside", row |-> 0, column |-> 0,
          board |-> b, turn |-> turn]
    ELSE LET row == RowOf(position)
             column == ColumnOf(position)
         IN  IF ~InBoard(row, column)
             THEN [outcome |-> "panic", row |-> row, column |-> column,
                   board |-> b, turn |-> turn]
             ELSE IF b[row][column] # "Empty"
             THEN [outcome |-> "occupied", row |-> row, column |-> column,
                   board |-> b, turn |-> turn]
             ELSE LET s == SeekDirections(b, Current(turn), Target(turn),
                                          row, column, 1, FALSE)
                  IN  IF ~s.found
                      THEN [outcome |-> "not_found", row |-> row,
                            column |-> column, board |-> s.board,
                            turn |-> turn]
                      ELSE [outcome |-> "placed", row |-> row,
                            column |-> column, board |-> s.board,
                            turn |-> Toggle(turn)]

\* What handle_click does to (board, current_turn) for a cursor position.
ClickResult(b, turn, position) ==
    IF position = None
    THEN [outcome |-> "no_cursor", row |-> 0, column |-> 0,
          board |-> b, turn |-> turn]
    ELSE IF OutsideBoard(position)
    THEN [outcome |-> "outside", row |-> 0, column |-> 0,
          board |-> b, turn |-> turn]
    ELSE LET row == RowOf(position)
             column == ColumnOf(position)
         IN  IF ~InBoard(row, column)
             THEN [outcome |-> "panic", row |-> row, column |-> column,
                   board |-> b, turn |-> turn]
             ELSE IF b[row][column] # "Empty"
             THEN [outcome |-> "occupied", row |-> row, column |-> column,
                   board |-> b, turn |-> turn]
             ELSE LET s == SeekDirections(b, Current(turn), Target(turn),
                                          row, column, 1, FALSE)
                  IN  IF ~s.found
                      THEN [outcome |-> "not_found", row |-> row,
                            column |-> column, board |-> s.board,
                            turn |-> turn]
                      ELSE [outcome |-> "placed", row |-> row,
                            column |-> column,
                            board |-> [s.board EXCEPT
                                          ![row][column] = Current(turn)],
                            turn |-> Toggle(turn)]

NoClick == [outcome |-> "none", row |-> 0, column |-> 0]

----------------------------------------------------------------------------
(* check_game_over *)

\* The three flags of check_game_over after its scan of the 64 cells.
exist_white(b) == \E r \in Index, c \in Index : b[r][c] = "White"
exist_black(b) == \E r \in Index, c \in Index : b[r][c] = "Black"
full_filled(b) == ~ \E r \in Index, c \in Index : b[r][c] \notin {"White", "Black"}

\* Mutant of GameOver: the full_filled flag is left out of the condition.
GameOverNoFull(b) == ~exist_white(b) \/ ~exist_black(b)

\* The condition under which "Game Over" is printed.
GameOver(b) == ~exist_white(b) \/ ~exist_black(b) \/ full_filled(b)

----------------------------------------------------------------------------
(* Recorded games *)

\* A game of 60 clicks, White first, the players alternating: every click
\* is accepted and the last one fills the board.
FullGame ==
    << <<5, 3>>, <<5, 2>>, <<4, 2>>, <<3, 2>>, <<4, 1>>, <<3, 0>>,
       <<4, 0>>, <<5, 5>>, <<2, 4>>, <<5, 4>>, <<6, 6>>, <<2, 3>>,
       <<6, 2>>, <<1, 4>>, <<1, 3>>, <<6, 3>>, <<5, 1>>, <<1, 2>>,
       <<2, 5>>, <<4, 5>>, <<0, 3>>, <<6, 1>>, <<7, 3>>, <<1, 6>>,
       <<1, 1>>, <<7, 1>>, <<4, 6>>, <<5, 0>>, <<2, 1>>, <<0, 5>>,
       <<0, 4>>, <<7, 2>>, <<3, 1>>, <<0, 1>>, <<6, 5>>, <<3, 5>>,
       <<1, 0>>, <<7, 4>>, <<2, 0>>, <<6, 4>>, <<2, 2>>, <<0, 0>>,
       <<6, 0>>, <<3, 6>>, <<3, 7>>, <<1, 5>>, <<5, 6>>, <<7, 0>>,
       <<2, 6>>, <<7, 7>>, <<1, 7>>, <<5, 7>>, <<7, 6>>, <<7, 5>>,
       <<0, 2>>, <<6, 7>>, <<0, 6>>, <<4, 7>>, <<2, 7>>, <<0, 7>> >>

\* A game of 9 clicks after which no Black piece is left.
WipeOutGame ==
    << <<5, 3>>, <<5, 4>>, <<5, 5>>, <<5, 2>>, <<5, 1>>, <<4, 5>>,
       <<3, 5>>, <<6, 1>>, <<7, 0>> >>

RecordedGames == <<FullGame, WipeOutGame>>

\* A cursor position inside the cell (row, column).
CursorAt(cell) ==
    [x |-> 460 + 40 * cell[1],
     y |-> IF cell[2] = 0 THEN 539 ELSE 540 - 40 * cell[2]]

\* The board setup leaves.
StartingBoard == reset_game_state(DefaultBoard)

\* The boards a recorded game passes through from its click n on, played
\* through handle_click from board b with the given turn.
RECURSIVE RecordBoardsFrom(_, _, _, _)
RecordBoardsFrom(game, n, b, turn) ==
    IF n > Len(game) THEN {b}
    ELSE LET res == ClickResult(b, turn, CursorAt(game[n]))
         IN  IF res.outcome # "placed" THEN {b}
             ELSE {b} \cup RecordBoardsFrom(game, n + 1, res.board, res.turn)

\* Every board the recorded games pass through from the starting position.
RecordBoards ==
    UNION {RecordBoardsFrom(RecordedGames[g], 1, StartingBoard, "White") :
           g \in DOMAIN RecordedGames}

----------------------------------------------------------------------------
(* The schedule *)

Idle == [click |-> "idle", space |-> "idle", s |-> "idle"]

\* Startup: setup runs reset_game_state on the default resource.
Init ==
    /\ board = reset_game_state(DefaultBoard)
    /\ current_turn = "White"
    /\ white_score = 2
    /\ black_score = 2
    /\ pc = Idle
    /\ last_click = NoClick
    /\ game_over = FALSE
    /\ panicked = FALSE
    /\ accepted_clicks = 0

\* A frame of Update in which exactly one of the three inputs was just
\* pressed: the run condition of its chain holds and the chain starts.  The
\* next frame begins when the chain has run to its end.
Update(input) ==
    /\ ~panicked
    /\ pc = Idle
    /\ pc' = CASE input = "MouseLeft" -> [pc EXCEPT !.click = "handle_click"]
               [] input = "Space" -> [pc EXCEPT !.space = "handle_press_space"]
               [] input = "KeyS" -> [pc EXCEPT !.s = "handle_press_key_s"]
    /\ UNCHANGED <<game_state, last_click, game_over, panicked,
                   accepted_clicks>>

handle_click(position) ==
    /\ ~panicked
    /\ pc.click = "handle_click"
    /\ LET res == ClickResult(board, current_turn, position)
       IN  /\ board' = res.board
           /\ current_turn' = res.turn
           /\ last_click' = [outcome |-> res.outcome, row |-> res.row,
                             column |-> res.column]
           /\ panicked' = (res.outcome = "panic")
           /\ accepted_clicks' = IF res.outcome = "placed"
                                 THEN accepted_clicks + 1
                                 ELSE accepted_clicks
    /\ pc' = [pc EXCEPT !.click = "calculate_score"]
    /\ UNCHANGED <<white_score, black_score, game_over>>

\* Mutant of calculate_score: the two counters written to the wrong fields.
calculate_score_swapped(chain) ==
    /\ ~panicked
    /\ pc[chain] = "calculate_score"
    /\ white_score' = Count(board, "Black")
    /\ black_score' = Count(board, "White")
    /\ pc' = [pc EXCEPT ![chain] = IF chain = "click" THEN "check_game_over"
                                   ELSE "idle"]
    /\ UNCHANGED <<board, current_turn, last_click, game_over, panicked,
                   accepted_clicks>>

calculate_score(chain) ==
    /\ ~panicked
    /\ pc[chain] = "calculate_score"
    /\ white_score' = Count(board, "White")
    /\ black_score' = Count(board, "Black")
    /\ pc' = [pc EXCEPT ![chain] = IF chain = "click" THEN "check_game_over"
                                   ELSE "idle"]
    /\ UNCHANGED <<board, current_turn, last_click, game_over, panicked,
                   accepted_clicks>>

check_game_over ==
    /\ ~panicked
    /\ pc.click = "check_game_over"
    /\ game_over' = GameOver(board)
    /\ pc' = [pc EXCEPT !.click = "idle"]
    /\ last_click' = NoClick
    /\ UNCHANGED <<game_state, panicked, accepted_clicks>>

\* Mutant of handle_press_space: the turn is not given back to White.
handle_press_space_keeps_turn ==
    /\ ~panicked
    /\ pc.space = "handle_press_space"
    /\ board' = reset_game_state(board)
    /\ white_score' = 2
    /\ black_score' = 2
    /\ pc' = [pc EXCEPT !.space = "calculate_score"]
    /\ accepted_clicks' = 0
    /\ UNCHANGED <<current_turn, last_click, game_over, panicked>>

handle_press_space ==
    /\ ~panicked
    /\ pc.space = "handle_press_space"
    /\ board' = reset_game_state(board)
    /\ white_score' = 2
    /\ black_score' = 2
    /\ current_turn' = "White"
    /\ pc' = [pc EXCEPT !.space = "calculate_score"]
    /\ accepted_clicks' = 0
    /\ UNCHANGED <<last_click, game_over, panicked>>

\* Mutant of handle_press_key_s: the pass is refused to Black.
handle_press_key_s_white_only ==
    /\ ~panicked
    /\ pc.s = "handle_press_key_s"
    /\ current_turn' = IF current_turn = "White" THEN "Black" ELSE "Black"
    /\ pc' = [pc EXCEPT !.s = "idle"]
    /\ UNCHANGED <<board, white_score, black_score, last_click, game_over,
                   panicked, accepted_clicks>>

handle_press_key_s ==
    /\ ~panicked
    /\ pc.s = "handle_press_key_s"
    /\ current_turn' = Toggle(current_turn)
    /\ pc' = [pc EXCEPT !.s = "idle"]
    /\ UNCHANGED <<board, white_score, black_score, last_click, game_over,
                   panicked, accepted_clicks>>

\* The player: what may be pressed in a frame.  The two keys always; the
\* mouse button while the game is in its first moves or follows one of the
\* recorded games.
Pressed ==
    IF Pieces(board) < MaxPieces \/ board \in RecordBoards
    THEN {"MouseLeft", "Space", "KeyS"}
    ELSE {"Space", "KeyS"}

Next ==
    \/ \E input \in Pressed : Update(input)
    \/ \E position \in Cursors : handle_click(position)
    \/ calculate_score("click")
    \/ calculate_score("space")
    \/ check_game_over
    \/ handle_press_space
    \/ handle_press_key_s

Spec == Init /\ [][Next]_vars

\* A frame of Update in which any of the three inputs were just pressed
\* together: the chain of each starts.  The schedule orders the systems of
\* a chain, and nothing orders a system of one chain against a system of
\* another; all take ResMut<GameState>, so they run one at a time.
UpdateTogether(inputs) ==
    /\ ~panicked
    /\ pc = Idle
    /\ inputs # {}
    /\ pc' = [click |-> IF "MouseLeft" \in inputs THEN "handle_click"
                        ELSE "idle",
              space |-> IF "Space" \in inputs THEN "handle_press_space"
                        ELSE "idle",
              s |-> IF "KeyS" \in inputs THEN "handle_press_key_s"
                    ELSE "idle"]
    /\ UNCHANGED <<game_state, last_click, game_over, panicked,
                   accepted_clicks>>

NextTogether ==
    \/ \E inputs \in SUBSET Pressed : UpdateTogether(inputs)
    \/ \E position \in Cursors : handle_click(position)
    \/ calculate_score("click")
    \/ calculate_score("space")
    \/ check_game_over
    \/ handle_press_space
    \/ handle_press_key_s

\* The program with frames that deliver several inputs.
SpecTogether == Init /\ [][NextTogether]_vars

----------------------------------------------------------------------------
(* Vocabulary of the properties *)

TypeOK ==
    /\ board \in [Index -> [Index -> CellState]]
    /\ current_turn \in WhiteOrBlack
    /\ white_score \in 0 .. 255
    /\ black_score \in 0 .. 255
    /\ pc \in [click : {"idle", "handle_click", "calculate_score",
                        "check_game_over"},
               space : {"idle", "handle_press_space", "calculate_score"},
               s : {"idle", "handle_press_key_s"}]
    /\ game_over \in BOOLEAN
    /\ panicked \in BOOLEAN
    /\ accepted_clicks \in 0 .. 60

\* The colour of a player's pieces and of the other player's pieces.
Own(turn) == turn
Other(turn) == IF turn = "White" THEN "Black" ELSE "White"

Rays == {d \in {-1, 0, 1} \X {-1, 0, 1} : d # <<0, 0>>}

\* Number of cells of b in state s, counted as a set.
CellsIn(b, s) == Cardinality({p \in Index \X Index : b[p[1]][p[2]] = s})

\* From (row, column) the ray d steps over exactly n opponent cells and then
\* onto a cell of the player, all on the board.
Flanks(b, turn, row, column, d, n) ==
    /\ row + (n + 1) * d[1] \in Index
    /\ column + (n + 1) * d[2] \in Index
    /\ \A k \in 1 .. n : b[row + k * d[1]][column + k * d[2]] = Other(turn)
    /\ b[row + (n + 1) * d[1]][column + (n + 1) * d[2]] = Own(turn)

Flanking(b, turn, row, column, d) ==
    \E n \in 1 .. (BoardSize - 2) : Flanks(b, turn, row, column, d, n)

\* (r, c) lies on the ray d from (row, column), k > 0 steps away.
OnRay(r, c, row, column, d) ==
    \E k \in 1 .. (BoardSize - 1) : r = row + k * d[1] /\ c = column + k * d[2]

\* (r, c) lies strictly between (row, column) and the own cell closing a
\* flanked run of the ray d.
Flanked(b, turn, row, column, d, r, c) ==
    \E n \in 1 .. (BoardSize - 2) :
        /\ Flanks(b, turn, row, column, d, n)
        /\ \E k \in 1 .. n : r = row + k * d[1] /\ c = column + k * d[2]

\* The step of handle_click, and that step when the cursor resolved to a
\* cell (row, column) of the board.
ClickStep == pc.click = "handle_click" /\ pc'.click = "calculate_score"
CellClickStep ==
    ClickStep /\ last_click'.outcome \in {"occupied", "not_found", "placed"}

\* The click put a piece on the cell (row, column).
Accepted(row, column) ==
    board[row][column] = "Empty" /\ board'[row][column] # "Empty"

----------------------------------------------------------------------------
(* Properties *)

\* C1 (move legality): a click on a cell of the board is accepted iff the
\* cell is Empty and some ray from it steps over one or more consecutive
\* opponent cells and then immediately onto a cell of the active player.
MoveLegality ==
    [][CellClickStep =>
        LET row == last_click'.row
            column == last_click'.column
        IN  Accepted(row, column) <=>
                /\ board[row][column] = "Empty"
                /\ \E d \in Rays : Flanking(board, current_turn, row, column, d)
      ]_vars

\* C2 (effect limited to flips): an accepted click changes only the clicked
\* cell, from Empty to the mover's colour, and opponent cells strictly inside
\* a flanked run, to the mover's colour; the number of Empty cells goes down
\* by exactly one.
EffectLimitedToFlips ==
    [][CellClickStep /\ Accepted(last_click'.row, last_click'.column) =>
        LET row == last_click'.row
            column == last_click'.column
        IN  /\ \A r \in Index, c \in Index :
                 board'[r][c] # board[r][c] =>
                    \/ /\ r = row /\ c = column
                       /\ board[r][c] = "Empty"
                       /\ board'[r][c] = Own(current_turn)
                    \/ /\ board[r][c] = Other(current_turn)
                       /\ board'[r][c] = Own(current_turn)
                       /\ \E d \in Rays :
                            Flanked(board, current_turn, row, column, d, r, c)
            /\ CellsIn(board', "Empty") = CellsIn(board, "Empty") - 1
      ]_vars

\* The mover of the click recorded in last_click, seen after handle_click:
\* an accepted click has passed the turn on.
Mover == IF last_click.outcome = "placed" THEN Other(current_turn)
         ELSE current_turn

\* C1, C2: the reachable click on which both fail.  White has clicked (2,1)
\* with Black on (2,2), (2,3) Empty and White on (2,4): the piece is placed
\* and (2,3) is filled although no ray from (2,1) flanks a run.
GapRayAccepted ==
    /\ pc.click = "calculate_score"
    /\ last_click = [outcome |-> "placed", row |-> 2, column |-> 1]
    /\ board[2][1] = "White" /\ board[2][2] = "White"
    /\ board[2][3] = "White" /\ board[2][4] = "White"
    /\ white_score = 2 /\ black_score = 5

\* From (row, column) the ray d steps first onto an opponent cell, then over
\* cells that are not the player's, and with its n-th step onto a cell of
\* the player: the seek of the direction stops there, ignited.
IgnitesAt(b, turn, row, column, d, n) ==
    /\ row + n * d[1] \in Index
    /\ column + n * d[2] \in Index
    /\ b[row + d[1]][column + d[2]] = Other(turn)
    /\ \A k \in 2 .. (n - 1) : b[row + k * d[1]][column + k * d[2]] # Own(turn)
    /\ b[row + n * d[1]][column + n * d[2]] = Own(turn)

Ignites(b, turn, row, column, d) ==
    \E n \in 2 .. (BoardSize - 1) : IgnitesAt(b, turn, row, column, d, n)

\* C3 (no mutation on rejection): a click that puts no piece on a cell
\* changes neither the board, the turn nor the scores, and the rest of its
\* chain (calculate_score, check_game_over) leaves them unchanged too.
NoMutationOnRejection ==
    [][/\ ClickStep /\ ~(CellClickStep
                           /\ Accepted(last_click'.row, last_click'.column))
            => /\ UNCHANGED game_state
               /\ last_click'.outcome # "placed"
       /\ pc.click = "calculate_score" /\ pc'.click = "check_game_over"
          /\ last_click.outcome # "placed"
            => UNCHANGED game_state
       /\ pc.click = "check_game_over" /\ pc'.click = "idle"
            => UNCHANGED game_state
      ]_vars

\* C3 witness: a click on an Empty cell next to an opponent piece was
\* rejected (a ray was walked past its first cell) and its chain has
\* recomputed the scores.
RejectedAfterWalk ==
    /\ pc.click = "check_game_over"
    /\ last_click.outcome = "not_found"
    /\ board[last_click.row][last_click.column] = "Empty"
    /\ \E d \in Rays :
         /\ last_click.row + d[1] \in Index
         /\ last_click.column + d[2] \in Index
         /\ board[last_click.row + d[1]][last_click.column + d[2]]
               = Other(current_turn)

\* C4 (flip correctness): after an accepted click the clicked cell holds the
\* mover's colour, every cell strictly between it and the ignition cell of a
\* ray that ignited holds the mover's colour, and every cell on a ray that
\* did not ignite is as before.
FlipCorrectness ==
    [][CellClickStep /\ Accepted(last_click'.row, last_click'.column) =>
        LET row == last_click'.row
            column == last_click'.column
        IN  /\ board'[row][column] = Own(current_turn)
            /\ \A d \in Rays, n \in 2 .. (BoardSize - 1) :
                 IgnitesAt(board, current_turn, row, column, d, n) =>
                    \A k \in 1 .. (n - 1) :
                       board'[row + k * d[1]][column + k * d[2]]
                          = Own(current_turn)
            /\ \A d \in Rays :
                 ~Ignites(board, current_turn, row, column, d) =>
                    \A r \in Index, c \in Index :
                       OnRay(r, c, row, column, d) => board'[r][c] = board[r][c]
      ]_vars

\* C4 witness: an accepted click has turned at least two cells besides the
\* clicked one (the scores are still those before the click).
SeveralFlipped ==
    /\ pc.click = "calculate_score"
    /\ last_click.outcome = "placed"
    /\ CellsIn(board, Mover)
          >= (IF Mover = "White" THEN white_score ELSE black_score) + 3

\* C5 (score/board consistency): whenever no chain is running, the scores
\* are the numbers of White and of Black cells, and the White, Black and
\* Empty cells are 64 in all.
ScoreBoardConsistency ==
    pc = Idle =>
        /\ white_score = CellsIn(board, "White")
        /\ black_score = CellsIn(board, "Black")
        /\ CellsIn(board, "White") + CellsIn(board, "Black")
              + CellsIn(board, "Empty") = 64
        /\ white_score \in 0 .. 64
        /\ black_score \in 0 .. 64

\* C5 witness: chains have completed on a board of seven pieces with
\* unequal scores.
ScoresAfterPlay ==
    /\ pc = Idle
    /\ white_score + black_score = 7
    /\ white_score > black_score + 2

\* C6 (turn advance on click): handle_click passes the turn on exactly when
\* it places a piece, the piece has the colour of the player whose turn it
\* was, and no other step of the click chain changes the turn.
TurnAdvanceOnClick ==
    [][/\ CellClickStep /\ Accepted(last_click'.row, last_click'.column)
            => /\ current_turn' = Other(current_turn)
               /\ board'[last_click'.row][last_click'.column]
                     = Own(current_turn)
       /\ ClickStep /\ ~(CellClickStep
                           /\ Accepted(last_click'.row, last_click'.column))
            => current_turn' = current_turn
       /\ pc'.click # pc.click /\ ~ClickStep
            => current_turn' = current_turn
      ]_vars

\* C6 witness: Black has just placed a piece and the turn is White's again.
BlackPlaced ==
    /\ pc.click = "calculate_score"
    /\ last_click.outcome = "placed"
    /\ board[last_click.row][last_click.column] = "Black"
    /\ current_turn = "White"

\* C7 (termination detection): check_game_over prints exactly when the board
\* has no White cell, or no Black cell, or no Empty cell, and changes neither
\* the board, the turn nor the scores.
TerminationDetection ==
    [][pc.click = "check_game_over" /\ pc'.click = "idle" =>
        /\ game_over' <=> \/ CellsIn(board, "White") = 0
                          \/ CellsIn(board, "Black") = 0
                          \/ CellsIn(board, "Empty") = 0
        /\ UNCHANGED game_state
      ]_vars

\* C7 witness: the check has printed on a board without Empty cells on
\* which both colours are present.
BoardFilled ==
    /\ pc = Idle
    /\ game_over
    /\ CellsIn(board, "Empty") = 0
    /\ CellsIn(board, "White") > 0
    /\ CellsIn(board, "Black") > 0

\* The check has also printed on a board from which Black is gone.
BlackWipedOut ==
    /\ pc = Idle
    /\ game_over
    /\ CellsIn(board, "Black") = 0
    /\ CellsIn(board, "White") > 0
    /\ CellsIn(board, "Empty") > 0

\* The starting position: White on (3,3) and (4,4), Black on (3,4) and
\* (4,3), 60 Empty cells, scores (2,2), White to move.
Canonical(b, turn, white, black) ==
    /\ \A r \in Index, c \in Index :
         b[r][c] = IF <<r, c>> \in {<<3, 3>>, <<4, 4>>} THEN "White"
                   ELSE IF <<r, c>> \in {<<3, 4>>, <<4, 3>>} THEN "Black"
                   ELSE "Empty"
    /\ CellsIn(b, "Empty") = 60
    /\ turn = "White"
    /\ white = 2
    /\ black = 2

\* C8 (initialization): the state after startup, after every
\* handle_press_space, and after the calculate_score that follows it, is the
\* starting position.
Initialization ==
    /\ Canonical(board, current_turn, white_score, black_score)
    /\ [][/\ pc.space = "handle_press_space" /\ pc'.space = "calculate_score"
               => Canonical(board', current_turn', white_score', black_score')
          /\ pc.space = "calculate_score" /\ pc'.space = "idle"
             /\ Canonical(board, current_turn, white_score, black_score)
               => Canonical(board', current_turn', white_score', black_score')
         ]_vars

\* C8 witness: the reset chain has completed after play: the starting
\* position with the notification of an earlier game still set.
ResetAfterGameOver ==
    /\ pc = Idle
    /\ game_over
    /\ Canonical(board, current_turn, white_score, black_score)

\* C9 (reset total and idempotent): handle_press_space takes every state to
\* the state startup produced, and resetting that state again gives it back.
ResetIdempotent ==
    [][pc.space = "handle_press_space" /\ pc'.space = "calculate_score" =>
        /\ board' = [r \in Index |-> [c \in Index |->
                        IF r = c /\ r \in {3, 4} THEN "White"
                        ELSE IF r + c = 7 /\ r \in {3, 4} THEN "Black"
                        ELSE "Empty"]]
        /\ <<current_turn', white_score', black_score'>> = <<"White", 2, 2>>
        /\ reset_game_state(board') = board'
        /\ Canonical(board, current_turn, white_score, black_score)
             => UNCHANGED game_state
      ]_vars

\* C9 witness: handle_press_space has run on a played board: the board is
\* the starting one while the notification of the game before is still set.
ResetFromPlayedGame ==
    /\ pc.space = "calculate_score"
    /\ game_over
    /\ current_turn = "White"
    /\ CellsIn(board, "Empty") = 60

\* C10 (pass): handle_press_key_s passes the turn to the other player and
\* changes neither a cell nor a score; it runs whenever the pass chain has
\* started, whatever the board.
PassSignal ==
    [][pc.s = "handle_press_key_s" /\ pc'.s = "idle" =>
        /\ current_turn = "White" => current_turn' = "Black"
        /\ current_turn = "Black" => current_turn' = "White"
        /\ UNCHANGED <<board, white_score, black_score>>
      ]_vars

\* C10 witness: it is Black's turn on the starting position, where White
\* had a move (to (2,4)): White's turn was passed.
PassedWithLegalMove ==
    /\ pc = Idle
    /\ current_turn = "Black"
    /\ CellsIn(board, "Empty") = 60
    /\ Flanking(board, "White", 2, 4, <<1, 0>>)

\* The board after White's opening move to (2,4).
OpeningBoard ==
    [r \in Index |-> [c \in Index |->
        IF <<r, c>> \in {<<2, 4>>, <<3, 4>>, <<3, 3>>, <<4, 4>>} THEN "White"
        ELSE IF <<r, c>> = <<4, 3>> THEN "Black"
        ELSE "Empty"]]

\* C11 (opening scenario): in the starting position a click on (2,3) is
\* rejected and changes nothing; a click on (2,4) gives OpeningBoard with
\* Black to move, and the calculate_score after it gives the scores (4,1).
OpeningScenario ==
    [][/\ Canonical(board, current_turn, white_score, black_score)
          /\ CellClickStep /\ last_click'.row = 2 /\ last_click'.column = 3
            => /\ UNCHANGED game_state
               /\ last_click'.outcome = "not_found"
       /\ Canonical(board, current_turn, white_score, black_score)
          /\ CellClickStep /\ last_click'.row = 2 /\ last_click'.column = 4
            => /\ board' = OpeningBoard
               /\ current_turn' = "Black"
               /\ last_click'.outcome = "placed"
       /\ pc.click = "calculate_score" /\ pc'.click = "check_game_over"
          /\ board = OpeningBoard /\ white_score = 2 /\ black_score = 2
            => /\ white_score' = 4 /\ black_score' = 1
               /\ board' = OpeningBoard /\ current_turn' = current_turn
      ]_vars

\* C11 witness: the chain of the click on (2,4) has recomputed the scores.
OpeningPlayed ==
    /\ pc.click = "check_game_over"
    /\ last_click = [outcome |-> "placed", row |-> 2, column |-> 4]
    /\ board = OpeningBoard
    /\ current_turn = "Black"
    /\ white_score = 4 /\ black_score = 1

\* C12 (indices in range): for every cursor position that passes the click
\* filter, the row and the column computed from it lie in 0..7, and the
\* access board[row][column] does not panic.
IndicesInRange ==
    last_click.outcome \notin {"none", "no_cursor", "outside"} =>
        /\ last_click.row \in Index
        /\ last_click.column \in Index
        /\ ~panicked

\* The board when the ignition of every ray is decided on the board b as it
\* is before the move, and the cells up to the ignition cells and the
\* clicked cell are then set together.
Together(b, turn, row, column) ==
    [r \in Index |-> [c \in Index |->
        IF r = row /\ c = column THEN Own(turn)
        ELSE IF \E d \in Rays, n \in 2 .. (BoardSize - 1) :
                   /\ IgnitesAt(b, turn, row, column, d, n)
                   /\ \E k \in 1 .. (n - 1) :
                        r = row + k * d[1] /\ c = column + k * d[2]
        THEN Own(turn)
        ELSE b[r][c]]]

\* The seek and flip loops of handle_click run over the directions in the
\* given order, from the i-th on.
RECURSIVE SeekInOrder(_, _, _, _, _, _)
SeekInOrder(b, turn, row, column, order, i) ==
    IF i > Len(order) THEN b
    ELSE LET d == order[i]
             s == Seek(b, Own(turn), Other(turn), row, column,
                       d[1], d[2], FALSE)
         IN  SeekInOrder(IF s.ignite
                         THEN Flip(b, Own(turn), s.seek_row, s.seek_column,
                                   d[1], d[2], row, column)
                         ELSE b,
                         turn, row, column, order, i + 1)

\* Other orders of the directions: the rotations and the reverse.
Orders ==
    LET n == Len(Directions)
    IN  {[i \in 1 .. n |-> Directions[((i + k - 1) % n) + 1]] : k \in 0 .. (n - 1)}
        \cup {[i \in 1 .. n |-> Directions[n + 1 - i]]}

\* C13 (per-direction independence): the board after an accepted click is
\* the board of Together, and it is the board the loops give in every other
\* order of the directions.
DirectionIndependence ==
    [][CellClickStep /\ Accepted(last_click'.row, last_click'.column) =>
        LET row == last_click'.row
            column == last_click'.column
        IN  /\ board' = Together(board, current_turn, row, column)
            /\ \A order \in Orders :
                 board' = [SeekInOrder(board, current_turn, row, column,
                                       order, 1)
                              EXCEPT ![row][column] = Own(current_turn)]
      ]_vars

\* The cell k steps from the clicked cell on the ray d holds the mover's
\* colour.
MoverAt(d, k) ==
    /\ last_click.row + k * d[1] \in Index
    /\ last_click.column + k * d[2] \in Index
    /\ board[last_click.row + k * d[1]][last_click.column + k * d[2]] = Mover

\* C13 witness: an accepted click has turned one opponent cell on each of
\* two rays: two cells were taken from the opponent (the scores are still
\* those before the click), two rays have the mover on their first two cells
\* and not on the third, and no other ray starts with a cell of the mover.
TwoRaysFlipped ==
    /\ pc.click = "calculate_score"
    /\ last_click.outcome = "placed"
    /\ CellsIn(board, Other(Mover)) + 2
          = (IF Mover = "White" THEN black_score ELSE white_score)
    /\ CellsIn(board, Mover)
          = (IF Mover = "White" THEN white_score ELSE black_score) + 3
    /\ \E d1 \in Rays, d2 \in Rays :
         /\ d1 # d2
         /\ \A d \in {d1, d2} :
              MoverAt(d, 1) /\ MoverAt(d, 2) /\ ~MoverAt(d, 3)
         /\ \A d \in Rays \ {d1, d2} : ~MoverAt(d, 1)

\* C14 (chains are atomic): once a chain of two or more systems has run its
\* first system, every step until its last system has run is a step of that
\* chain.
ChainsAtomic ==
    [][/\ pc.click \in {"calculate_score", "check_game_over"}
            => pc'.click # pc.click
       /\ pc.space = "calculate_score"
            => pc'.space # pc.space
      ]_vars

\* C14: the state in which the claim's example fails.  The click chain is
\* at its check_game_over after a click that placed a piece, and the board
\* is the starting position that a handle_press_space of the same frame
\* wrote after the click: the scores and the check are of the reset board.
ClickChainSeesReset ==
    /\ pc.click = "check_game_over"
    /\ last_click.outcome = "placed"
    /\ Canonical(board, current_turn, white_score, black_score)

\* The condition of the game-over notification, by counting.
Over(b) ==
    \/ CellsIn(b, "White") = 0
    \/ CellsIn(b, "Black") = 0
    \/ CellsIn(b, "Empty") = 0

\* C15 (game over is absorbing): on a board on which the game is over,
\* handle_click places nothing and changes neither board nor turn, whoever
\* is to move, and every step other than handle_press_space leaves the game
\* over.
GameOverAbsorbing ==
    [][Over(board) =>
        /\ ClickStep => /\ board' = board
                        /\ current_turn' = current_turn
                        /\ last_click'.outcome # "placed"
        /\ ~(pc.space = "handle_press_space" /\ pc'.space = "calculate_score")
             => Over(board')
      ]_vars

\* C15 witness: the board is full, the turn was passed to Black, and
\* Black's click was rejected.
RejectedOnFullBoard ==
    /\ pc.click = "calculate_score"
    /\ last_click.outcome = "occupied"
    /\ current_turn = "Black"
    /\ CellsIn(board, "Empty") = 0
    /\ CellsIn(board, "White") > 0
    /\ CellsIn(board, "Black") > 0

\* The end of the recorded wipe-out: 13 White pieces, no Black piece, and
\* Black's click on an Empty cell next to a White piece was rejected.
RejectedAfterWipeOut ==
    /\ pc.click = "calculate_score"
    /\ last_click.outcome = "not_found"
    /\ current_turn = "Black"
    /\ CellsIn(board, "Black") = 0
    /\ CellsIn(board, "White") = 13
    /\ \E d \in Rays :
         /\ last_click.row + d[1] \in Index
         /\ last_click.column + d[2] \in Index
         /\ board[last_click.row + d[1]][last_click.column + d[2]] = "White"

\* Black, who has no piece left on a board in its first moves, has clicked
\* an Empty cell next to a White piece and was rejected.
RejectedWhenOver ==
    /\ pc.click = "calculate_score"
    /\ last_click.outcome = "not_found"
    /\ current_turn = "Black"
    /\ CellsIn(board, "Black") = 0
    /\ CellsIn(board, "White") > 0
    /\ \E d \in Rays :
         /\ last_click.row + d[1] \in Index
         /\ last_click.column + d[2] \in Index
         /\ board[last_click.row + d[1]][last_click.column + d[2]] = "White"

\* C16 (bounded play): no step but handle_press_space empties a cell; a
\* handle_click that places a piece leaves fewer Empty cells than before and
\* is counted, any other handle_click is not; the clicks accepted since the
\* last reset and the Empty cells together never exceed 60, so at most 60
\* clicks are accepted; and after 60 accepted clicks handle_click places
\* nothing and leaves the board as it is.
BoundedPlay ==
    [][/\ ~(pc.space = "handle_press_space" /\ pc'.space = "calculate_score")
            => \A r \in Index, c \in Index :
                  board[r][c] # "Empty" => board'[r][c] # "Empty"
       /\ ClickStep /\ last_click'.outcome = "placed"
            => /\ CellsIn(board', "Empty") < CellsIn(board, "Empty")
               /\ accepted_clicks' = accepted_clicks + 1
       /\ ClickStep /\ last_click'.outcome # "placed"
            => accepted_clicks' = accepted_clicks
       /\ accepted_clicks' + CellsIn(board', "Empty") <= 60
       /\ accepted_clicks' <= 60
       /\ ClickStep /\ (accepted_clicks = 60 \/ CellsIn(board, "Empty") = 0)
            => /\ last_click'.outcome \notin {"placed", "not_found"}
               /\ board' = board
      ]_vars

\* C16 witness: 60 clicks were accepted since the last reset and the click
\* after them was rejected.
SixtyAccepted ==
    /\ pc.click = "calculate_score"
    /\ accepted_clicks = 60
    /\ last_click.outcome = "occupied"
    /\ CellsIn(board, "Empty") = 0

\* A click was accepted on a played board and fewer cells are Empty than
\* the scores, still those before the click, leave.
EmptyDecreased ==
    /\ pc.click = "calculate_score"
    /\ last_click.outcome = "placed"
    /\ white_score + black_score >= 6
    /\ CellsIn(board, "Empty") + white_score + black_score < 64

\* The score field of a player.
ScoreOf(player, white, black) == IF player = "White" THEN white ELSE black

\* C17 (every accepted move captures): the calculate_score of the click's
\* chain, run after a click that placed a piece, leaves the mover's score at
\* least 2 above and the opponent's at least 1 below what they were before
\* the click.  The scores are still the ones from before the click when this
\* step starts, since handle_click does not write them.
AcceptedMoveCaptures ==
    [][pc.click = "calculate_score" /\ pc'.click = "check_game_over"
       /\ last_click.outcome = "placed" =>
        /\ ScoreOf(Mover, white_score', black_score')
              >= ScoreOf(Mover, white_score, black_score) + 2
        /\ ScoreOf(Other(Mover), white_score', black_score')
              <= ScoreOf(Other(Mover), white_score, black_score) - 1
      ]_vars
====
